---- MODULE Spec2Model ----
\* A model of the pixel-to-glyph conversion pipeline of ART (AARTY):
\* color.py, symbols.py, config.py, text_image.py and converter.py.
\*
\* Python values are modelled as follows.
\*   ANSIColor            a tuple <<r, g, b, a>>; an absent colour (None) is <<>>
\*   Symbols              the tuple of its glyphs (one-character strings)
\*   Config               a record [symbols, background, flags]
\*   FragmentInfo         a record [sym, sym_index, fg]
\*   IndexedFragment      a record [sym_index, fg]
\*   Fragment             a record [ch, fg]; an absent result (None) is <<>>
\*   PixelImage           a record [w, h, px], px the row-major tuple of pixels
\*   str                  a TLA+ string; ESC is spelled \033 as in the source
\* Python indexes from 0 and TLA+ from 1: set[idx] is written set[idx + 1].
EXTENDS Integers, Sequences, FiniteSets, TLC

VARIABLES
    kind,       \* what the behaviour exercises: a sink, "stream" or "textimage", or
                \* "values", the value classes ANSIColor, Symbols and Config
    config,     \* the Config of the conversions and of the TextImage; the receiver of
                \* the Symbols and Config methods
    row_len,    \* TextImage.row_len
    fragments,  \* TextImage.fragments
    op,         \* the last operation and its arguments; the construction at first:
                \* TextImage.height, which no method reads, is kept here only
    pre,        \* TextImage.fragments before the last operation
    ret,        \* what the last operation returned
    calls,      \* the calls the last conversion made on its sink, in order
    dest,       \* the destination of the last streaming conversion: the writes it holds
    attempts,   \* every stream.write the last streaming conversion attempted
    raised,     \* the last operation ended by raising
    again       \* the sink a second run of the last conversion left, None before it

vars == <<kind, config, row_len, fragments, op, pre, ret, calls, dest, attempts, raised, again>>

-----------------------------------------------------------------------------
\* Bounds of the model.

MaxW == 2       \* widths 0..MaxW
MaxH == 2       \* heights 0..MaxH
MaxFrags == 1   \* a TextImage is appended to while it stores at most MaxFrags fragments,
                \* and written with insert and put at the indices 0..MaxFrags + 1
MaxFail == 3    \* the destination fails after 0..MaxFail successful writes, or never
MaxFull == 4    \* images of at most MaxFull pixels are enumerated in full
MaxRamp == 3    \* the Symbols methods are applied to ramps of 0..MaxRamp glyphs

None == <<>>

-----------------------------------------------------------------------------
\* color.py

ANSI_ESCAPE_CLOSE == "\\033[0m"
ANSI_FOREGROUND_ESCAPE == "\\033[38;2;"
ANSI_BACKGROUND_ESCAPE == "\\033[48;2;"

Min(a, b) == IF a <= b THEN a ELSE b
Max(a, b) == IF a >= b THEN a ELSE b

\* ANSIColor that clamps from above only
ANSIColor_no_floor(r, g, b, a) == <<Min(255, r), Min(255, g), Min(255, b), Min(255, a)>>

\* ANSIColor(r, g, b, a) with __post_init__: each channel clamped into 0..255.
ANSIColor(r, g, b, a) ==
    <<Min(255, Max(0, r)), Min(255, Max(0, g)), Min(255, Max(0, b)), Min(255, Max(0, a))>>

TRANSPARENT == ANSIColor(0, 0, 0, 0)

\* is_transparent with the threshold itself counted as transparent
is_transparent_inclusive(c) == c[4] <= 120

is_transparent(c) == c[4] < 120

as_background(c) ==
    IF is_transparent(c) THEN ""
    ELSE ANSI_BACKGROUND_ESCAPE \o ToString(c[1]) \o ";" \o ToString(c[2]) \o ";"
             \o ToString(c[3]) \o "m"

as_foreground(c) ==
    IF is_transparent(c) THEN ""
    ELSE ANSI_FOREGROUND_ESCAPE \o ToString(c[1]) \o ";" \o ToString(c[2]) \o ";"
             \o ToString(c[3]) \o "m"

\* ANSIColor.__str__
color_str(c) ==
    IF is_transparent(c) THEN ""
    ELSE ANSI_FOREGROUND_ESCAPE \o ToString(c[1]) \o ";" \o ToString(c[2]) \o ";"
             \o ToString(c[3]) \o "m"

\* color_format with the format_spec ignored
color_format_plain(c, dash) ==
    IF is_transparent(c) THEN ""
    ELSE as_foreground(c)

\* ANSIColor.__format__(format_spec); dash is TRUE when '-' is in format_spec.
color_format(c, dash) ==
    IF is_transparent(c) THEN ""
    ELSE IF dash THEN as_background(c)
    ELSE as_foreground(c)

-----------------------------------------------------------------------------
\* symbols.py

EMPTY_CHAR == " "

symbols_is_empty(set) == Len(set) = 0

\* symbols_get that wraps around the ramp
symbols_get_wrapping(set, idx) ==
    IF symbols_is_empty(set) THEN EMPTY_CHAR
    ELSE set[(idx % Len(set)) + 1]

\* Symbols.get(idx), idx >= 0
symbols_get(set, idx) ==
    IF symbols_is_empty(set) THEN EMPTY_CHAR
    ELSE IF idx >= Len(set) THEN set[Len(set)]
    ELSE set[idx + 1]

\* sym_index with the threshold alpha itself taken as transparent
sym_index_threshold_inclusive(set, pixel) ==
    IF symbols_is_empty(set) THEN 0
    ELSE LET a == pixel[4]
             length == Len(set)
             idx0 == (pixel[1] + pixel[2] + pixel[3]) \div 3
         IN  IF idx0 = 0 THEN 0
             ELSE LET idx1 == IF a <= 120 THEN a % idx0 ELSE idx0
                  IN  Min((idx1 * length) \div 256, length - 1)

\* sym_index with the brightness, not the alpha, taken modulo the brightness
sym_index_avg_modulo(set, pixel) ==
    IF symbols_is_empty(set) THEN 0
    ELSE LET a == pixel[4]
             length == Len(set)
             idx0 == (pixel[1] + pixel[2] + pixel[3]) \div 3
         IN  IF idx0 = 0 THEN 0
             ELSE LET idx1 == IF a < 120 THEN idx0 % Max(idx0, 1) ELSE idx0
                  IN  Min((idx1 * length) \div 256, length - 1)

\* Symbols.sym_index(pixel)
sym_index(set, pixel) ==
    IF symbols_is_empty(set) THEN 0
    ELSE LET r == pixel[1]
             g == pixel[2]
             b == pixel[3]
             a == pixel[4]
             length == Len(set)
             idx0 == (r + g + b) \div 3
         IN  IF idx0 = 0 THEN 0
             ELSE LET idx1 == IF a < 120 THEN a % (IF idx0 # 0 THEN idx0 ELSE 1) ELSE idx0
                      idx2 == (idx1 * length) \div 256
                  IN  Min(idx2, length - 1)

\* Symbols.sym_and_index(pixel)
sym_and_index(set, pixel) ==
    LET idx == sym_index(set, pixel) IN <<symbols_get(set, idx), idx>>

-----------------------------------------------------------------------------
\* config.py

COLORS == 1
REVERSE == 2

\* Config.reversed: bool(flags & REVERSE)
reversed(cfg) == (cfg.flags \div REVERSE) % 2 = 1

\* Config.use_colors: bool(flags & COLORS)
use_colors(cfg) == (cfg.flags \div COLORS) % 2 = 1

\* Config(symbols, background, flags)
Config(symbols, background, flags) ==
    [symbols |-> symbols, background |-> background, flags |-> flags]

\* with_flags that assigns the flags on the receiver and returns it
with_flags_in_place(cfg, flags) ==
    [self |-> Config(cfg.symbols, cfg.background, flags),
     result |-> Config(cfg.symbols, cfg.background, flags)]

\* Config.with_flags(flags): the receiver afterwards and the Config returned
with_flags(cfg, flags) ==
    [self |-> cfg, result |-> Config(cfg.symbols, cfg.background, flags)]

\* Config.with_background(color): the receiver afterwards and the Config returned;
\* color is an ANSIColor, or a tuple (r, g, b), here a tuple of length 3, that
\* ANSIColor(*color) turns into a colour of alpha 255
with_background(cfg, color) ==
    LET c == IF Len(color) = 3 THEN ANSIColor(color[1], color[2], color[3], 255) ELSE color
    IN  [self |-> cfg, result |-> Config(cfg.symbols, c, cfg.flags)]

-----------------------------------------------------------------------------
\* text_image.py: FragmentInfo, IndexedFragment, Fragment

FragmentInfo(sym, idx, fg) == [sym |-> sym, sym_index |-> idx, fg |-> fg]

\* IndexedFragment(sym_index, fg); fg defaults to TRANSPARENT
IndexedFragment(idx, fg) == [sym_index |-> idx, fg |-> fg]

DefaultFragment == IndexedFragment(0, TRANSPARENT)

Fragment(ch, fg) == [ch |-> ch, fg |-> fg]

-----------------------------------------------------------------------------
\* text_image.py: TextImage, on its list of fragments

\* TextImage_init with the list filled to width * height default fragments
TextImage_init_presized(cfg, width, h) == [i \in 1..(width * h) |-> DefaultFragment]

\* TextImage.__init__(config, width, height): the fragments it starts with
TextImage_init(cfg, width, h) == <<>>

\* list[idx] raises IndexError: idx is neither in 0..len-1 nor in -len..-1
list_index_raises(list, idx) == idx >= Len(list) \/ idx < -Len(list)

\* list[idx] when it does not raise: a negative idx counts from the end
list_item(list, idx) == list[IF idx >= 0 THEN idx + 1 ELSE Len(list) + idx + 1]

\* TextImage._get_unchecked(idx), self.fragments[idx] not raising
TextImage_get_unchecked(cfg, frags, idx) ==
    Fragment(symbols_get(cfg.symbols, list_item(frags, idx).sym_index),
             list_item(frags, idx).fg)

\* TextImage.get(idx) raises: the test idx < len(self.fragments) passes every
\* negative idx on to self.fragments[idx]
TextImage_get_raises(frags, idx) == idx < Len(frags) /\ list_index_raises(frags, idx)

\* TextImage.get(idx) when it does not raise: <<fragment>>, or None
TextImage_get(cfg, frags, idx) ==
    IF idx < Len(frags) THEN <<TextImage_get_unchecked(cfg, frags, idx)>>
    ELSE None

\* TextImage.fragment_at(x, y) raises
TextImage_fragment_at_raises(rl, frags, x, y) == TextImage_get_raises(frags, y * rl + x)

\* TextImage.fragment_at(x, y) when it does not raise: <<fragment>>, or None
TextImage_fragment_at(cfg, rl, frags, x, y) == TextImage_get(cfg, frags, y * rl + x)

\* TextImage_insert that extends the list up to idx only, then appends the fragment
TextImage_insert_short(frags, idx, fragment) ==
    IF idx >= Len(frags)
    THEN Append(frags \o [i \in 1..(idx - Len(frags) - 1) |-> DefaultFragment], fragment)
    ELSE [frags EXCEPT ![idx + 1] = fragment]

\* TextImage.insert(idx, fragment), idx >= 0: the fragments afterwards
TextImage_insert(frags, idx, fragment) ==
    LET extended ==
            IF idx >= Len(frags)
            THEN frags \o [i \in 1..(idx - Len(frags) + 1) |-> DefaultFragment]
            ELSE frags
    IN  [extended EXCEPT ![idx + 1] = fragment]

\* TextImage.put(x, y, fragment)
TextImage_put(rl, frags, x, y, fragment) == TextImage_insert(frags, y * rl + x, fragment)

\* TextImage.__len__
TextImage_len(frags) == Len(frags)

\* io.StringIO.write: the buffer is the tuple of the non-empty strings written,
\* its value their concatenation.
buffer_write(buffer, data) == IF data = "" THEN buffer ELSE Append(buffer, data)

\* TextImage._fmt: the loop over self.fragments[k..], i the column counter
RECURSIVE fmt_loop(_, _, _, _, _, _)
fmt_loop(cfg, rl, frags, k, i, buffer) ==
    IF k > Len(frags) THEN buffer
    ELSE LET wrap == (i = rl)
             b1 == IF wrap THEN buffer_write(buffer, "\n") ELSE buffer
             i1 == IF wrap THEN 0 ELSE i
             b2 == buffer_write(b1, symbols_get(cfg.symbols, frags[k].sym_index))
         IN  fmt_loop(cfg, rl, frags, k + 1, i1 + 1, b2)

\* TextImage_fmt with the column counter starting at 1
TextImage_fmt_from_one(cfg, rl, frags) == fmt_loop(cfg, rl, frags, 1, 1, <<>>)

TextImage_fmt(cfg, rl, frags) == fmt_loop(cfg, rl, frags, 1, 0, <<>>)

\* TextImage._color_fmt: the loop over self.fragments[k..]
RECURSIVE color_fmt_loop(_, _, _, _, _, _)
color_fmt_loop(cfg, rl, frags, k, i, buffer) ==
    IF k > Len(frags) THEN buffer
    ELSE LET wrap == (i = rl)
             b1 == IF wrap THEN buffer_write(buffer, "\n") ELSE buffer
             i1 == IF wrap THEN 0 ELSE i
             sym == symbols_get(cfg.symbols, frags[k].sym_index)
             b2 == IF reversed(cfg)
                   THEN buffer_write(b1, color_format(frags[k].fg, TRUE))
                   ELSE buffer_write(b1, color_format(frags[k].fg, FALSE))
             b3 == buffer_write(buffer_write(b2, sym), ANSI_ESCAPE_CLOSE)
         IN  color_fmt_loop(cfg, rl, frags, k + 1, i1 + 1, b3)

\* has_background of TextImage._color_fmt
color_fmt_has_background(cfg) ==
    IF reversed(cfg)
    THEN cfg.background # None /\ ~is_transparent(cfg.background)
    ELSE cfg.background # None

TextImage_color_fmt(cfg, rl, frags) ==
    LET b0 == IF reversed(cfg)
              THEN IF cfg.background # None /\ ~is_transparent(cfg.background)
                   THEN buffer_write(<<>>, color_str(cfg.background))
                   ELSE <<>>
              ELSE IF cfg.background # None
                   THEN buffer_write(<<>>, as_background(cfg.background))
                   ELSE <<>>
        b1 == color_fmt_loop(cfg, rl, frags, 1, 0, b0)
    IN  IF color_fmt_has_background(cfg) THEN buffer_write(b1, ANSI_ESCAPE_CLOSE) ELSE b1

\* TextImage.__str__
TextImage_str(cfg, rl, frags) ==
    IF use_colors(cfg) THEN TextImage_color_fmt(cfg, rl, frags)
    ELSE TextImage_fmt(cfg, rl, frags)

\* TextImage as a FragmentWriter
TextImage_background(frags, bg) == [frags |-> frags, ret |-> TRUE]

\* TextImage_write_fragment that stores the fragment in front
TextImage_write_fragment_front(frags, info) ==
    <<IndexedFragment(info.sym_index, info.fg)>> \o frags

TextImage_write_fragment(frags, info) ==
    Append(frags, IndexedFragment(info.sym_index, info.fg))

\* TextImage_write_colored_fragment that stores the fg it is passed
TextImage_write_colored_fragment_fg(frags, info, bg, fg) ==
    Append(frags, IndexedFragment(info.sym_index, IF fg # None THEN fg ELSE info.fg))

TextImage_write_colored_fragment(frags, info, bg, fg) ==
    TextImage_write_fragment(frags, info)

TextImage_write_bytes(frags, data) == frags

-----------------------------------------------------------------------------
\* converter.py: the sink a conversion drives.
\* A sink s is a record
\*   kind      "stream" (StreamFragmentWriter over a text stream) or "textimage"
\*   fragments TextImage.fragments
\*   dest      the writes the destination stream holds
\*   attempts  every stream.write attempted, the failed one included
\*   budget    how many more writes the destination accepts before it raises; -1: all
\*   raised    an exception is propagating: nothing more is executed
\*   calls     the calls the converter made on the sink

\* stream_write with the failure of the destination swallowed
stream_write_swallowed(s, data) ==
    IF s.raised THEN s
    ELSE IF s.budget = 0
    THEN [s EXCEPT !.attempts = Append(@, data)]
    ELSE [s EXCEPT !.attempts = Append(@, data),
                   !.dest = Append(@, data),
                   !.budget = IF @ > 0 THEN @ - 1 ELSE @]

\* self.stream.write(data) on the destination
stream_write(s, data) ==
    IF s.raised THEN s
    ELSE IF s.budget = 0
    THEN [s EXCEPT !.attempts = Append(@, data), !.raised = TRUE]
    ELSE [s EXCEPT !.attempts = Append(@, data),
                   !.dest = Append(@, data),
                   !.budget = IF @ > 0 THEN @ - 1 ELSE @]

\* StreamFragmentWriter.write_bytes(data), data a str, the stream a text stream
Stream_write_bytes(s, data) == stream_write(s, data)

\* Stream_background without the transparency test
Stream_background_unchecked(s, bg) ==
    [s |-> stream_write(s, as_background(bg)), ret |-> TRUE]

\* StreamFragmentWriter.background(bg)
Stream_background(s, bg) ==
    IF is_transparent(bg) THEN [s |-> s, ret |-> FALSE]
    ELSE [s |-> Stream_write_bytes(s, as_background(bg)), ret |-> TRUE]

\* Stream_write_fragment that writes the index of the glyph
Stream_write_fragment_index(s, info) == Stream_write_bytes(s, ToString(info.sym_index))

\* StreamFragmentWriter.write_fragment(info)
Stream_write_fragment(s, info) == Stream_write_bytes(s, info.sym)

\* StreamFragmentWriter.write_colored_fragment(info, bg, fg); an ANSIColor is truthy
Stream_write_colored_fragment(s, info, bg, fg) ==
    LET s1 == IF bg # None THEN Stream_write_bytes(s, as_background(bg)) ELSE s
        s2 == IF fg # None THEN Stream_write_bytes(s1, as_foreground(fg)) ELSE s1
        s3 == Stream_write_bytes(s2, info.sym)
    IN  IF bg # None \/ fg # None THEN Stream_write_bytes(s3, ANSI_ESCAPE_CLOSE) ELSE s3

NoInfo == FragmentInfo("", 0, None)

\* One entry of s.calls; at is the number of stream writes attempted before the call.
Call(s, name, x, y, info, bg, fg, data, r) ==
    [op |-> name, x |-> x, y |-> y, info |-> info, bg |-> bg, fg |-> fg,
     data |-> data, ret |-> r, at |-> Len(s.attempts)]

\* output.background(bg), dispatched on the sink
sink_background(s, bg) ==
    IF s.raised THEN [s |-> s, ret |-> FALSE]
    ELSE LET r == IF s.kind = "stream" THEN Stream_background(s, bg)
                  ELSE [s |-> [s EXCEPT !.fragments = TextImage_background(@, bg).frags],
                        ret |-> TextImage_background(s.fragments, bg).ret]
         IN  [s |-> [r.s EXCEPT !.calls =
                         Append(@, Call(s, "background", 0, 0, NoInfo, bg, None, "", r.ret))],
              ret |-> r.ret]

\* output.write_fragment(info) for pixel (x, y)
sink_write_fragment(s, x, y, info) ==
    IF s.raised THEN s
    ELSE LET t == [s EXCEPT !.calls =
                       Append(@, Call(s, "write_fragment", x, y, info, None, None, "", FALSE))]
         IN  IF s.kind = "stream" THEN Stream_write_fragment(t, info)
             ELSE [t EXCEPT !.fragments = TextImage_write_fragment(@, info)]

\* output.write_colored_fragment(info, bg, fg) for pixel (x, y)
sink_write_colored_fragment(s, x, y, info, bg, fg) ==
    IF s.raised THEN s
    ELSE LET t == [s EXCEPT !.calls =
                       Append(@, Call(s, "write_colored_fragment", x, y, info, bg, fg,
                                      "", FALSE))]
         IN  IF s.kind = "stream" THEN Stream_write_colored_fragment(t, info, bg, fg)
             ELSE [t EXCEPT !.fragments = TextImage_write_colored_fragment(@, info, bg, fg)]

\* output.write_bytes(data)
sink_write_bytes(s, data) ==
    IF s.raised THEN s
    ELSE LET t == [s EXCEPT !.calls =
                       Append(@, Call(s, "write_bytes", 0, 0, NoInfo, None, None, data, FALSE))]
         IN  IF s.kind = "stream" THEN Stream_write_bytes(t, data)
             ELSE [t EXCEPT !.fragments = TextImage_write_bytes(@, data)]

-----------------------------------------------------------------------------
\* converter.py: convert_image_to_ascii

\* image.get_pixel(x, y)
get_pixel(image, x, y) == image.px[y * image.w + x + 1]

\* convert_pixel that swaps the colours whenever reversed is set and a background
\* is configured
convert_pixel_swapping(cfg, image, s, ansi_close, x, y) ==
    LET pixel == get_pixel(image, x, y)
        si == sym_and_index(cfg.symbols, pixel)
        fg == ANSIColor(pixel[1], pixel[2], pixel[3], pixel[4])
        fi == FragmentInfo(si[1], si[2], fg)
    IN  IF use_colors(cfg)
        THEN LET fg_color == IF ~is_transparent(fg) THEN fg ELSE None
                 bg_color == cfg.background
                 swap == cfg.background # None /\ reversed(cfg)
             IN  sink_write_colored_fragment(s, x, y, fi,
                     IF swap THEN fg_color ELSE bg_color,
                     IF swap THEN bg_color ELSE fg_color)
        ELSE sink_write_fragment(s, x, y, fi)

\* The body of the loop over x: one pixel
convert_pixel(cfg, image, s, ansi_close, x, y) ==
    LET pixel == get_pixel(image, x, y)
        si == sym_and_index(cfg.symbols, pixel)
        fg == ANSIColor(pixel[1], pixel[2], pixel[3], pixel[4])
        fi == FragmentInfo(si[1], si[2], fg)
    IN  IF use_colors(cfg)
        THEN LET fg_color == IF ~is_transparent(fg) THEN fg ELSE None
                 bg_color == cfg.background
                 swap == ansi_close /\ reversed(cfg)
             IN  sink_write_colored_fragment(s, x, y, fi,
                     IF swap THEN fg_color ELSE bg_color,
                     IF swap THEN bg_color ELSE fg_color)
        ELSE sink_write_fragment(s, x, y, fi)

\* for x in range(width), from x on
RECURSIVE convert_row(_, _, _, _, _, _)
convert_row(cfg, image, s, ansi_close, x, y) ==
    IF x >= image.w \/ s.raised THEN s
    ELSE convert_row(cfg, image, convert_pixel(cfg, image, s, ansi_close, x, y),
                     ansi_close, x + 1, y)

\* convert_rows with the newline written between rows only
RECURSIVE convert_rows_between(_, _, _, _, _)
convert_rows_between(cfg, image, s, ansi_close, y) ==
    IF y >= image.h \/ s.raised THEN s
    ELSE LET r == convert_row(cfg, image, s, ansi_close, 0, y)
         IN  convert_rows_between(cfg, image,
                 IF y < image.h - 1 THEN sink_write_bytes(r, "\n") ELSE r,
                 ansi_close, y + 1)

\* for y in range(height), from y on
RECURSIVE convert_rows(_, _, _, _, _)
convert_rows(cfg, image, s, ansi_close, y) ==
    IF y >= image.h \/ s.raised THEN s
    ELSE convert_rows(cfg, image,
                      sink_write_bytes(convert_row(cfg, image, s, ansi_close, 0, y), "\n"),
                      ansi_close, y + 1)

\* convert_image_to_ascii(config, image, output): the sink afterwards
convert_image_to_ascii(cfg, image, s) ==
    LET b == IF cfg.background # None /\ ~reversed(cfg)
             THEN sink_background(s, cfg.background)
             ELSE [s |-> s, ret |-> FALSE]
        ansi_close == b.ret
        s1 == convert_rows(cfg, image, b.s, ansi_close, 0)
    IN  IF ansi_close THEN sink_write_bytes(s1, ANSI_ESCAPE_CLOSE) ELSE s1

-----------------------------------------------------------------------------
\* The inputs the operations are applied to.

Pixels == { <<255, 255, 255, 255>>, <<200, 100, 50, 0>> }

Ramps == { <<>>, <<" ", "#">> }

Backgrounds == { None, <<10, 20, 30, 255>>, <<10, 20, 30, 0>> }

Configs == [symbols : Ramps, background : Backgrounds, flags : 0..3]

\* The images of width w and height h: every image of at most MaxFull pixels,
\* and of the larger ones those in which at most one pixel differs from the others
ImagesOf(w, h) ==
    IF w * h <= MaxFull
    THEN { [w |-> w, h |-> h, px |-> p] : p \in [1..(w * h) -> Pixels] }
    ELSE { [w |-> w, h |-> h, px |-> [k \in 1..(w * h) |-> IF k = j THEN a ELSE b]] :
           <<j, a, b>> \in (1..(w * h)) \X Pixels \X Pixels }

Images == UNION { ImagesOf(d[1], d[2]) : d \in (0..MaxW) \X (0..MaxH) }

NoImage == [w |-> 0, h |-> 0, px |-> <<>>]

\* Fragments written with insert and put
InsFrags == { IndexedFragment(0, <<200, 100, 50, 0>>) }

\* Colours passed as bg and fg: absent, transparent, opaque
ArgColors == { None, <<7, 8, 9, 0>>, <<7, 8, 9, 255>> }

Infos == { FragmentInfo(" ", 0, <<200, 100, 50, 0>>) }

Budgets == (0..MaxFail) \cup {-1}

\* The inputs of the value classes.

Glyphs == <<" ", ".", ":", "+", "#">>

\* The ramps of 0..MaxRamp glyphs, lightest first
ValueRamps == { SubSeq(Glyphs, 1, n) : n \in 0..Min(MaxRamp, Len(Glyphs)) }

ValueConfigs == [symbols : ValueRamps, background : Backgrounds, flags : 0..3]

ValueChannels == {0, 1, 128, 255}

\* Alphas on both sides of the transparency threshold
ValueAlphas == {0, 100, 119, 120, 255}

\* The pixels sym_index is applied to
ValuePixels == ValueChannels \X ValueChannels \X ValueChannels \X ValueAlphas

\* The colours as_foreground and as_background are called on
ValueColors == {0, 255} \X {8} \X {0, 90} \X ValueAlphas

\* Channel arguments of ANSIColor(r, g, b, a): below, inside and above 0..255
RawChannels == {-1, 0, 255, 256}

\* Arguments of with_background: ANSIColor values and (r, g, b) tuples
BackgroundArgs == { <<7, 8, 9, 0>>, <<7, 8, 9, 255>>, <<7, 8, 9>>, <<300, -8, 9>> }

\* The last operation: its name and arguments (those it does not take at their defaults)
NoOp ==
    [name |-> "init", width |-> 0, height |-> 0, image |-> NoImage, idx |-> 0, x |-> 0, y |-> 0,
     frag |-> DefaultFragment, info |-> NoInfo, bg |-> None, fg |-> None,
     data |-> "", budget |-> -1, pixel |-> <<0, 0, 0, 0>>, color |-> None, flags |-> 0,
     receiver |-> None]

\* NewStream over the destination the last conversion wrote to
NewStream_reused(budget) ==
    [kind |-> "stream", fragments |-> <<>>, dest |-> dest, attempts |-> attempts,
     budget |-> budget, raised |-> FALSE, calls |-> <<>>]

\* A sink over a new, empty destination stream
NewStream(budget) ==
    [kind |-> "stream", fragments |-> <<>>, dest |-> <<>>, attempts |-> <<>>,
     budget |-> budget, raised |-> FALSE, calls |-> <<>>]

\* The TextImage as a sink
TextImageSink(frags) ==
    [kind |-> "textimage", fragments |-> frags, dest |-> <<>>, attempts |-> <<>>,
     budget |-> -1, raised |-> FALSE, calls |-> <<>>]

-----------------------------------------------------------------------------
\* The state machine: one sink, a destination stream or a TextImage, and the
\* operations of its class. calls, dest, attempts, ret and raised describe the
\* last operation only.

Init ==
    /\ kind \in {"stream", "textimage", "values"}
    /\ config \in IF kind = "values" THEN ValueConfigs ELSE Configs
    /\ \E width \in 0..MaxW, h \in 0..MaxH :
        /\ kind # "textimage" => width = 0 /\ h = 0
        /\ row_len = width
        /\ fragments = TextImage_init(config, width, h)
        /\ op = [NoOp EXCEPT !.width = width, !.height = h]
    /\ pre = <<>>
    /\ ret = None
    /\ calls = <<>>
    /\ dest = <<>>
    /\ attempts = <<>>
    /\ raised = FALSE
    /\ again = None

\* convert_image_to_ascii(config, image, stream) on a new destination that
\* fails after budget writes; a destination receives one operation
ConvertStream ==
    /\ kind = "stream"
    /\ op.name = "init"
    /\ \E image \in Images, budget \in Budgets :
        LET s == convert_image_to_ascii(config, image, NewStream(budget))
        IN  /\ op' = [NoOp EXCEPT !.name = "convert", !.image = image, !.budget = budget]
            /\ pre' = <<>>
            /\ ret' = None
            /\ calls' = s.calls
            /\ dest' = s.dest
            /\ attempts' = s.attempts
            /\ raised' = s.raised
            /\ again' = None
            /\ UNCHANGED <<kind, config, row_len, fragments>>

\* StreamFragmentWriter(stream).write_colored_fragment(info, bg, fg) on a new destination
StreamWriteColoredFragment ==
    /\ kind = "stream"
    /\ op.name = "init"
    /\ \E info \in Infos, bg \in ArgColors, fg \in ArgColors, budget \in Budgets :
        LET s == Stream_write_colored_fragment(NewStream(budget), info, bg, fg)
        IN  /\ op' = [NoOp EXCEPT !.name = "write_colored_fragment", !.info = info,
                                  !.bg = bg, !.fg = fg, !.budget = budget]
            /\ pre' = <<>>
            /\ ret' = None
            /\ calls' = <<>>
            /\ dest' = s.dest
            /\ attempts' = s.attempts
            /\ raised' = s.raised
            /\ again' = None
            /\ UNCHANGED <<kind, config, row_len, fragments>>

\* What every TextImage operation leaves of the last operation's trace
TextImageOp(o, r) ==
    /\ kind = "textimage"
    /\ op' = o
    /\ pre' = fragments
    /\ ret' = r
    /\ dest' = <<>>
    /\ attempts' = <<>>
    /\ raised' = FALSE
    /\ again' = None
    /\ UNCHANGED <<kind, config, row_len>>

\* convert_image_to_ascii(config, image, text_image), the image of the width
\* the TextImage was constructed with
ConvertTextImage ==
    \E h \in 0..MaxH :
        /\ kind = "textimage"
        /\ Len(fragments) = 0 \/ Len(fragments) + row_len * h <= MaxFrags + 1
        /\ \E image \in ImagesOf(row_len, h) :
            LET s == convert_image_to_ascii(config, image, TextImageSink(fragments))
            IN  /\ TextImageOp([NoOp EXCEPT !.name = "convert", !.image = image], None)
                /\ fragments' = s.fragments
                /\ calls' = s.calls

\* A second convert_image_to_ascii(config, image, output) with the configuration and
\* the image of the last one, into another new sink of the same class: a new
\* destination that fails after as many writes, or a new TextImage of the same width
ConvertAgain ==
    /\ op.name = "convert"
    /\ again = None
    /\ kind = "textimage" => Len(pre) = 0
    /\ again' = convert_image_to_ascii(config, op.image,
                    IF kind = "stream" THEN NewStream(op.budget)
                    ELSE TextImageSink(TextImage_init(config, row_len, op.image.h)))
    /\ UNCHANGED <<kind, config, row_len, fragments, op, pre, ret, calls, dest, attempts,
                   raised>>

\* text_image.insert(idx, fragment)
Insert ==
    \E idx \in 0..(MaxFrags + 1), f \in InsFrags :
        /\ TextImageOp([NoOp EXCEPT !.name = "insert", !.idx = idx, !.frag = f], None)
        /\ fragments' = TextImage_insert(fragments, idx, f)
        /\ calls' = <<>>

\* text_image.put(x, y, fragment)
Put ==
    \E x \in 0..1, y \in 0..1, f \in InsFrags :
        /\ y * row_len + x <= MaxFrags + 1
        /\ TextImageOp([NoOp EXCEPT !.name = "put", !.x = x, !.y = y, !.frag = f], None)
        /\ fragments' = TextImage_put(row_len, fragments, x, y, f)
        /\ calls' = <<>>

\* text_image.get(idx)
Get ==
    \E idx \in 0..(MaxFrags + 2) :
        /\ TextImageOp([NoOp EXCEPT !.name = "get", !.idx = idx],
                       TextImage_get(config, fragments, idx))
        /\ UNCHANGED fragments
        /\ calls' = <<>>

\* text_image.fragment_at(x, y): x left of, inside and right of the rows, y above,
\* in and below the first row
FragmentAt ==
    \E x \in {-1, 0, row_len}, y \in {-1, 0, 1} :
        LET fails == TextImage_fragment_at_raises(row_len, fragments, x, y)
        IN  /\ kind = "textimage"
            /\ op' = [NoOp EXCEPT !.name = "fragment_at", !.x = x, !.y = y]
            /\ pre' = fragments
            /\ ret' = IF fails THEN None
                      ELSE TextImage_fragment_at(config, row_len, fragments, x, y)
            /\ raised' = fails
            /\ calls' = <<>>
            /\ dest' = <<>>
            /\ attempts' = <<>>
            /\ again' = None
            /\ UNCHANGED <<kind, config, row_len, fragments>>

\* len(text_image)
Length ==
    /\ TextImageOp([NoOp EXCEPT !.name = "len"], <<TextImage_len(fragments)>>)
    /\ UNCHANGED fragments
    /\ calls' = <<>>

\* str(text_image): the returned value is the concatenation of ret
Str ==
    /\ TextImageOp([NoOp EXCEPT !.name = "str"], TextImage_str(config, row_len, fragments))
    /\ UNCHANGED fragments
    /\ calls' = <<>>

\* text_image.background(bg)
Background ==
    \E bg \in ArgColors \ {None} :
        /\ TextImageOp([NoOp EXCEPT !.name = "background", !.bg = bg],
                       <<TextImage_background(fragments, bg).ret>>)
        /\ fragments' = TextImage_background(fragments, bg).frags
        /\ calls' = <<>>

\* text_image.write_bytes(data)
WriteBytes ==
    \E data \in {"\n"} :
        /\ TextImageOp([NoOp EXCEPT !.name = "write_bytes", !.data = data], None)
        /\ fragments' = TextImage_write_bytes(fragments, data)
        /\ calls' = <<>>

\* text_image.write_colored_fragment(info, bg, fg)
WriteColoredFragment ==
    \E info \in Infos, bg \in ArgColors, fg \in ArgColors :
        /\ Len(fragments) <= MaxFrags
        /\ TextImageOp([NoOp EXCEPT !.name = "write_colored_fragment", !.info = info,
                                    !.bg = bg, !.fg = fg], None)
        /\ fragments' = TextImage_write_colored_fragment(fragments, info, bg, fg)
        /\ calls' = <<>>

\* The value classes keep nothing between calls: each method is applied once, to
\* the receiver and the arguments drawn
ValueCall == kind = "values" /\ op.name = "init"

\* What every method of a value class leaves of the last operation's trace
ValueOp(o, r) ==
    /\ op' = o
    /\ ret' = r
    /\ UNCHANGED <<kind, row_len, fragments, pre, calls, dest, attempts, raised, again>>

\* config.symbols.sym_index(pixel)
SymIndex ==
    /\ ValueCall
    /\ \E pixel \in ValuePixels :
            /\ ValueOp([NoOp EXCEPT !.name = "sym_index", !.pixel = pixel],
                       <<sym_index(config.symbols, pixel)>>)
            /\ UNCHANGED config

\* config.symbols.get(idx)
SymbolsGet ==
    /\ ValueCall
    /\ \E idx \in 0..(MaxRamp + 1) :
            /\ ValueOp([NoOp EXCEPT !.name = "symbols_get", !.idx = idx],
                       <<symbols_get(config.symbols, idx)>>)
            /\ UNCHANGED config

\* ANSIColor(r, g, b, a)
NewColor ==
    /\ ValueCall
    /\ \E r \in RawChannels, g \in RawChannels, b \in RawChannels, a \in RawChannels :
            /\ ValueOp([NoOp EXCEPT !.name = "ANSIColor", !.pixel = <<r, g, b, a>>],
                       <<ANSIColor(r, g, b, a)>>)
            /\ UNCHANGED config

\* color.as_foreground()
AsForeground ==
    /\ ValueCall
    /\ \E c \in ValueColors :
            /\ ValueOp([NoOp EXCEPT !.name = "as_foreground", !.color = c], <<as_foreground(c)>>)
            /\ UNCHANGED config

\* color.as_background()
AsBackground ==
    /\ ValueCall
    /\ \E c \in ValueColors :
            /\ ValueOp([NoOp EXCEPT !.name = "as_background", !.color = c], <<as_background(c)>>)
            /\ UNCHANGED config

\* config.with_flags(flags)
WithFlags ==
    /\ ValueCall
    /\ \E flags \in 0..3 :
            LET r == with_flags(config, flags)
            IN  /\ ValueOp([NoOp EXCEPT !.name = "with_flags", !.flags = flags,
                                        !.receiver = config], <<r.result>>)
                /\ config' = r.self

\* config.with_background(color)
WithBackground ==
    /\ ValueCall
    /\ \E color \in BackgroundArgs :
            LET r == with_background(config, color)
            IN  /\ ValueOp([NoOp EXCEPT !.name = "with_background", !.color = color,
                                        !.receiver = config], <<r.result>>)
                /\ config' = r.self

Next ==
    \/ ConvertStream
    \/ StreamWriteColoredFragment
    \/ ConvertTextImage
    \/ ConvertAgain
    \/ Insert
    \/ Put
    \/ Get
    \/ Length
    \/ Str
    \/ Background
    \/ WriteBytes
    \/ WriteColoredFragment
    \/ SymIndex
    \/ SymbolsGet
    \/ NewColor
    \/ AsForeground
    \/ AsBackground
    \/ WithFlags
    \/ WithBackground

Spec == Init /\ [][Next]_vars

\* A TextImage that is written to and queried by coordinates
InitTextImage == Init /\ kind = "textimage"

NextFragmentAt ==
    \/ ConvertTextImage
    \/ Insert
    \/ Put
    \/ WriteColoredFragment
    \/ FragmentAt

SpecFragmentAt == InitTextImage /\ [][NextFragmentAt]_vars

-----------------------------------------------------------------------------
\* Claims about convert_image_to_ascii

Converted == op.name = "convert"

IsFragmentWrite(c) == c.op \in {"write_fragment", "write_colored_fragment"}

IsNewline(c) == c.op = "write_bytes" /\ c.data = "\n"

IsClose(c) == c.op = "write_bytes" /\ c.data = ANSI_ESCAPE_CLOSE

\* The number of calls that precede the rows: the background call, if made
RowsOffset == IF Len(calls) > 0 /\ calls[1].op = "background" THEN 1 ELSE 0

\* C1: a conversion that completes makes exactly W*H fragment writes, the one of
\* pixel (x, y) at position y*(W+1) + x of the row calls, hence in row-major
\* order, each carrying that pixel's colour, and one newline after the W
\* fragment writes of each row, H in all; none when W = 0 or H = 0.
C1_RowMajorWrites ==
    (Converted /\ ~raised) =>
        LET W == op.image.w
            H == op.image.h
        IN  /\ Cardinality({i \in DOMAIN calls : IsFragmentWrite(calls[i])}) = W * H
            /\ Cardinality({i \in DOMAIN calls : IsNewline(calls[i])}) = H
            /\ Len(calls) >= RowsOffset + H * (W + 1)
            /\ \A y \in 0..(H - 1) :
                /\ \A x \in 0..(W - 1) :
                    LET c == calls[RowsOffset + y * (W + 1) + x + 1]
                    IN  /\ IsFragmentWrite(c)
                        /\ c.x = x /\ c.y = y
                        /\ c.info.fg = op.image.px[y * W + x + 1]
                /\ IsNewline(calls[RowsOffset + y * (W + 1) + W + 1])

\* A completed conversion of a 2x2 image whose first row holds two different pixels
C1_Witness ==
    /\ Converted /\ ~raised
    /\ op.image.w = 2 /\ op.image.h = 2
    /\ op.image.px[1] # op.image.px[2]
    /\ Len(calls) >= 6

BackgroundCalls == {i \in DOMAIN calls : calls[i].op = "background"}

CloseCalls == {i \in DOMAIN calls : IsClose(calls[i])}

\* The number of stream writes call i of the conversion attempted
WritesOfCall(i) ==
    (IF i < Len(calls) THEN calls[i + 1].at ELSE Len(attempts)) - calls[i].at

\* C2: a conversion that completes calls sink.background at most once, as its
\* first call, and only with a background configured and reversed unset; it
\* pushes the reset once, as its last call, exactly when that call returned
\* true, and never otherwise. On the streaming sink a transparent background
\* makes the call write nothing and return false, an opaque one makes it write
\* its background escape and return true.
C2_BackgroundAndClose ==
    (Converted /\ ~raised) =>
        LET returnedTrue == BackgroundCalls # {} /\ calls[1].ret
        IN  /\ Cardinality(BackgroundCalls) <= 1
            /\ BackgroundCalls \subseteq {1}
            /\ BackgroundCalls # {} => (config.background # None /\ ~reversed(config))
            /\ returnedTrue => CloseCalls = {Len(calls)}
            /\ ~returnedTrue => CloseCalls = {}
            /\ (kind = "stream" /\ BackgroundCalls # {}) =>
                IF config.background[4] < 120
                THEN ~calls[1].ret /\ WritesOfCall(1) = 0
                ELSE /\ calls[1].ret
                     /\ WritesOfCall(1) = 1
                     /\ config.background = <<10, 20, 30, 255>>
                            => dest[1] = "\\033[48;2;10;20;30m"

\* A completed streaming conversion of a non-empty image that emitted an opaque background
C2_Witness ==
    /\ Converted /\ ~raised /\ kind = "stream"
    /\ op.image.w >= 1 /\ op.image.h >= 1
    /\ BackgroundCalls = {1} /\ calls[1].ret
    /\ IsClose(calls[Len(calls)])
    /\ dest[Len(dest)] = ANSI_ESCAPE_CLOSE

\* The writes of the conversion of op.image when no write fails
FailureFree == convert_image_to_ascii(config, op.image, NewStream(-1)).dest

\* C10: when a write to the destination fails the conversion raises; the failed
\* write is the last one attempted and is attempted once; the destination holds
\* the writes that succeeded, a prefix of the writes of the failure-free conversion.
C10_FailurePropagates ==
    (Converted /\ kind = "stream") =>
        LET full == FailureFree
        IN  /\ raised <=> (op.budget # -1 /\ op.budget < Len(full))
            /\ ~raised => (dest = full /\ attempts = full)
            /\ raised =>
                /\ Len(dest) = op.budget
                /\ Len(attempts) = Len(dest) + 1
                /\ dest = SubSeq(full, 1, Len(dest))
                /\ attempts = SubSeq(full, 1, Len(dest) + 1)

\* A conversion whose third write failed with more writes still to come
C10_Witness ==
    /\ Converted /\ kind = "stream" /\ raised
    /\ Len(dest) = 2
    /\ Len(FailureFree) > 3

-----------------------------------------------------------------------------
\* Claims about StreamFragmentWriter

\* C3: write_colored_fragment writes the reset after the glyph only if it wrote
\* a non-empty colour escape before the glyph; with no escape (each colour
\* absent or transparent) it writes the bare glyph alone.
C3_ResetOnlyAfterEscape ==
    (kind = "stream" /\ op.name = "write_colored_fragment" /\ ~raised) =>
        LET wroteEscape ==
                \/ op.bg # None /\ op.bg[4] >= 120
                \/ op.fg # None /\ op.fg[4] >= 120
            wroteReset == dest[Len(dest)] = ANSI_ESCAPE_CLOSE
        IN  /\ wroteReset => wroteEscape
            /\ ~wroteEscape => dest = <<op.info.sym>>

-----------------------------------------------------------------------------
\* Claims about TextImage

OnTextImage(name) == kind = "textimage" /\ op.name = name

\* The glyph of pixel (x, y) of the image
GlyphOf(image, x, y) ==
    symbols_get(config.symbols, sym_index(config.symbols, image.px[y * image.w + x + 1]))

\* H lines of W glyphs each, a line separator between consecutive lines
PlainLines(image) ==
    LET W == image.w
        H == image.h
    IN  [p \in 1..(IF H = 0 THEN 0 ELSE H * W + H - 1) |->
            IF (p - 1) % (W + 1) = W THEN "\n"
            ELSE GlyphOf(image, (p - 1) % (W + 1), (p - 1) \div (W + 1))]

\* The TextImage held nothing when the W x H image was converted into it
ConvertedFresh == OnTextImage("convert") /\ pre = <<>>

\* C4 as stated: after converting a W x H image into a fresh
\* TextImage(config, W, H), its string with colours disabled is H lines of W
\* glyphs, the glyph of pixel (x, y) at column x of line y, for every W and H.
C4_RoundTripAnySize ==
    (ConvertedFresh /\ ~use_colors(config)) =>
        TextImage_str(config, row_len, fragments) = PlainLines(op.image)

\* C4 as amended: the same when W >= 1 or H <= 1; for W = 0 the string is empty.
C4_RoundTrip ==
    (ConvertedFresh /\ ~use_colors(config)) =>
        /\ (op.image.w >= 1 \/ op.image.h <= 1) =>
                TextImage_str(config, row_len, fragments) = PlainLines(op.image)
        /\ op.image.w = 0 => TextImage_str(config, row_len, fragments) = <<>>

\* A 2x2 image with two different pixels in its second row, converted into a
\* fresh TextImage with colours disabled
C4_Witness ==
    /\ ConvertedFresh /\ ~use_colors(config)
    /\ op.image.w = 2 /\ op.image.h = 2
    /\ op.image.px[3] # op.image.px[4]
    /\ Len(TextImage_str(config, row_len, fragments)) = 5

\* C5 as stated: right after construction a TextImage of width W and height H
\* stores W*H fragments, each of index 0 and the transparent colour, and get(i)
\* returns a fragment for every i below W*H.
C5_PresizedAtConstruction ==
    OnTextImage("init") =>
        /\ TextImage_len(fragments) = op.width * op.height
        /\ \A i \in 0..(op.width * op.height - 1) :
            /\ TextImage_get(config, fragments, i) # None
            /\ fragments[i + 1] = [sym_index |-> 0, fg |-> <<0, 0, 0, 0>>]

\* C5 as amended: right after construction a TextImage stores no fragment,
\* whatever W and H: len() is 0 and get(i) returns the absent result for every i >= 0.
C5_EmptyAtConstruction ==
    OnTextImage("init") =>
        /\ TextImage_len(fragments) = 0
        /\ \A i \in 0..(op.width * op.height) : TextImage_get(config, fragments, i) = None

\* A TextImage constructed with width 2 and height 2
C5_Witness == OnTextImage("init") /\ op.width = 2 /\ op.height = 2 /\ row_len = 2

\* C6 as stated: after a conversion, whatever the TextImage held before, the
\* entry at index y*W + x is the fragment of pixel (x, y) of the converted image.
C6_IndexIsPixel ==
    OnTextImage("convert") =>
        LET W == op.image.w
            H == op.image.h
        IN  /\ Len(fragments) >= W * H
            /\ \A y \in 0..(H - 1) : \A x \in 0..(W - 1) :
                LET f == fragments[y * W + x + 1]
                    pixel == op.image.px[y * W + x + 1]
                IN  /\ f.sym_index = sym_index(config.symbols, pixel)
                    /\ f.fg = pixel

\* C6 as amended: after a conversion into a TextImage that stored n fragments,
\* the entry at index n + y*W + x is the fragment of pixel (x, y) of the
\* converted image, the stored count is n + W*H and the n entries below are
\* unchanged; so index i is pixel (i mod W, i div W) when n = 0.
C6_IndexIsPixelAfterStored ==
    OnTextImage("convert") =>
        LET W == op.image.w
            H == op.image.h
            n == Len(pre)
        IN  /\ Len(fragments) = n + W * H
            /\ SubSeq(fragments, 1, n) = pre
            /\ \A y \in 0..(H - 1) : \A x \in 0..(W - 1) :
                LET f == fragments[n + y * W + x + 1]
                    pixel == op.image.px[y * W + x + 1]
                IN  /\ f.sym_index = sym_index(config.symbols, pixel)
                    /\ f.fg = pixel

\* A conversion into a TextImage that already stored a fragment of another pixel
C6_Witness ==
    /\ OnTextImage("convert")
    /\ Len(pre) >= 1
    /\ op.image.w * op.image.h >= 1
    /\ pre[1].fg # op.image.px[1]

\* C7: get(idx) with idx at or beyond the stored count returns the absent
\* result; insert(idx, f) with idx at or beyond the stored count leaves idx + 1
\* fragments, f at idx, the default fragment between the old count and idx, and
\* the entries below the old count unchanged; neither raises.
C7_OutOfRange ==
    /\ (OnTextImage("get") /\ op.idx >= Len(fragments)) => (ret = None /\ ~raised)
    /\ (OnTextImage("insert") /\ op.idx >= Len(pre)) =>
        /\ ~raised
        /\ Len(fragments) = op.idx + 1
        /\ fragments[op.idx + 1] = op.frag
        /\ \A i \in (Len(pre) + 1)..op.idx :
                fragments[i] = [sym_index |-> 0, fg |-> <<0, 0, 0, 0>>]
        /\ \A i \in 1..Len(pre) : fragments[i] = pre[i]

\* An insert beyond the end of a TextImage that stores a fragment, leaving a gap
C7_Witness ==
    /\ OnTextImage("insert")
    /\ Len(pre) >= 1
    /\ op.idx > Len(pre)
    /\ pre[1] # DefaultFragment

\* C8: on a TextImage, background(c) returns true for every colour and
\* write_bytes and background leave the fragments unchanged;
\* write_colored_fragment(info, bg, fg) appends the fragment of info's index
\* and info's colour, whatever bg and fg.
C8_AccumulatingSink ==
    /\ OnTextImage("background") => (ret = <<TRUE>> /\ fragments = pre)
    /\ OnTextImage("write_bytes") => fragments = pre
    /\ OnTextImage("write_colored_fragment") =>
        /\ Len(fragments) = Len(pre) + 1
        /\ SubSeq(fragments, 1, Len(pre)) = pre
        /\ fragments[Len(pre) + 1] =
                [sym_index |-> op.info.sym_index, fg |-> op.info.fg]

\* A coloured write with an opaque bg and a transparent fg on a TextImage that stores a fragment
C8_Witness ==
    /\ OnTextImage("write_colored_fragment")
    /\ Len(pre) >= 1
    /\ op.bg # None /\ op.bg[4] >= 120
    /\ op.fg # None /\ op.fg[4] < 120

\* The escape of colour c in a style ("38" foreground, "48" background), as the
\* tuple of the strings written: none for a transparent colour
EscapeOf(style, c) ==
    IF c[4] < 120 THEN <<>>
    ELSE << "\\033[" \o style \o ";2;" \o ToString(c[1]) \o ";" \o ToString(c[2])
               \o ";" \o ToString(c[3]) \o "m" >>

\* What the string with colours holds for the first k fragments: a newline
\* before every fragment whose index is a positive multiple of row_len, then
\* the fragment's own colour escape, its glyph and a reset
RECURSIVE ColouredFragments(_)
ColouredFragments(k) ==
    IF k = 0 THEN <<>>
    ELSE ColouredFragments(k - 1)
            \o (IF k - 1 > 0 /\ (k - 1) % row_len = 0 THEN <<"\n">> ELSE <<>>)
            \o EscapeOf(IF reversed(config) THEN "48" ELSE "38", fragments[k].fg)
            \o <<symbols_get(config.symbols, fragments[k].sym_index), "\\033[0m">>

\* The string with colours: the configured background first, the fragments,
\* and a closing reset when closing holds
ColouredString(closing) ==
    (IF config.background # None
     THEN EscapeOf(IF reversed(config) THEN "38" ELSE "48", config.background)
     ELSE <<>>)
        \o ColouredFragments(Len(fragments))
        \o (IF closing THEN <<"\\033[0m">> ELSE <<>>)

\* C9 as stated: the string of a TextImage of row_len >= 1 with colours enabled
\* is the configured background (background-style, foreground-style when
\* reversed), the fragments in index order with a newline every row_len entries,
\* each with its own colour escape (foreground-style, background-style when
\* reversed), glyph and reset, and one closing reset exactly when a background
\* is configured, in both modes.
C9_ColouredStringClosedIfConfigured ==
    (OnTextImage("str") /\ use_colors(config) /\ row_len >= 1) =>
        ret = ColouredString(config.background # None)

\* C9 as amended: the same, with the closing reset exactly when a background is
\* configured and, in reversed mode, is not transparent.
C9_ColouredString ==
    (OnTextImage("str") /\ use_colors(config) /\ row_len >= 1) =>
        ret = ColouredString(/\ config.background # None
                             /\ (reversed(config) => config.background[4] >= 120))

\* The string, in reversed mode with a transparent background configured, of a
\* TextImage of two rows whose first fragment is opaque
C9_Witness ==
    /\ OnTextImage("str") /\ use_colors(config) /\ reversed(config)
    /\ config.background # None /\ config.background[4] < 120
    /\ row_len = 1 /\ Len(fragments) >= 2
    /\ fragments[1].fg[4] >= 120
    /\ ret[Len(ret)] = ANSI_ESCAPE_CLOSE

-----------------------------------------------------------------------------
\* Claims about two runs of convert_image_to_ascii

\* The last conversion went into a new sink and was run a second time
RanTwice == Converted /\ again # None

-----------------------------------------------------------------------------
\* Claims about the value classes: Symbols, ANSIColor, Config

OnValue(name) == kind = "values" /\ op.name = name

\* The average brightness (r + g + b) div 3 of the pixel passed to sym_index
Avg == (op.pixel[1] + op.pixel[2] + op.pixel[3]) \div 3

RampLen == Len(config.symbols)

\* C12: on a non-empty ramp of length L, sym_index returns 0 for a pixel of average
\* brightness 0, whatever its alpha and L, and min(avg * L div 256, L - 1) for a pixel
\* of average brightness avg > 0 that is not transparent (a >= 120); on an empty
\* ramp it returns 0.
C12_SymIndex ==
    OnValue("sym_index") =>
        /\ RampLen = 0 => ret = <<0>>
        /\ RampLen > 0 /\ Avg = 0 => ret = <<0>>
        /\ RampLen > 0 /\ Avg > 0 /\ op.pixel[4] >= 120 =>
               ret = <<Min((Avg * RampLen) \div 256, RampLen - 1)>>

\* An opaque pixel at the threshold alpha, bright enough for the last glyph of a ramp
\* of several
C12_Witness ==
    /\ OnValue("sym_index")
    /\ RampLen >= 3
    /\ op.pixel[4] = 120
    /\ Avg = 255
    /\ ret = <<RampLen - 1>>

\* C13 as stated: for a transparent pixel (a < 120) of average brightness avg > 0,
\* sym_index scales avg mod max(avg, 1) and returns
\* min((avg mod max(avg, 1)) * L div 256, L - 1).
C13_TransparentAvgModulo ==
    OnValue("sym_index") /\ RampLen > 0 /\ Avg > 0 /\ op.pixel[4] < 120 =>
        ret = <<Min(((Avg % Max(Avg, 1)) * RampLen) \div 256, RampLen - 1)>>

\* C13 as amended: for a transparent pixel (a < 120) of average brightness avg > 0,
\* sym_index scales the alpha modulo the brightness and returns
\* min((a mod avg) * L div 256, L - 1).
C13_TransparentAlphaModulo ==
    OnValue("sym_index") /\ RampLen > 0 /\ Avg > 0 /\ op.pixel[4] < 120 =>
        ret = <<Min(((op.pixel[4] % Avg) * RampLen) \div 256, RampLen - 1)>>

\* A transparent pixel that gets a glyph other than the first
C13_Witness ==
    /\ OnValue("sym_index")
    /\ Avg > 0
    /\ op.pixel[4] < 120
    /\ ret[1] >= 1

\* C14: Symbols.get(i) returns the glyph at position i for 0 <= i < len(ramp); for
\* i >= len(ramp) on a non-empty ramp it returns the last glyph, as get(len(ramp) - 1)
\* does; on an empty ramp it returns a single space for every i.
C14_SymbolsGet ==
    OnValue("symbols_get") =>
        /\ RampLen = 0 => ret = <<" ">>
        /\ op.idx < RampLen => ret = <<config.symbols[op.idx + 1]>>
        /\ RampLen > 0 /\ op.idx >= RampLen =>
               /\ ret = <<config.symbols[RampLen]>>
               /\ ret = <<symbols_get(config.symbols, RampLen - 1)>>

\* An index past the end of a ramp of several glyphs
C14_Witness ==
    /\ OnValue("symbols_get")
    /\ RampLen >= 2
    /\ op.idx > RampLen
    /\ ret # <<config.symbols[1]>>

\* C15: for a colour with a < 120, as_foreground() and as_background() return the
\* empty string; for a colour with a >= 120 they return exactly ESC[38;2;R;G;Bm and
\* ESC[48;2;R;G;Bm with the decimal channel values, the same whatever the alpha.
C15_Escapes ==
    LET c == op.color
        rgb == ToString(c[1]) \o ";" \o ToString(c[2]) \o ";" \o ToString(c[3]) \o "m"
    IN  /\ OnValue("as_foreground") =>
            /\ c[4] < 120 => ret = <<"">>
            /\ c[4] >= 120 =>
                   /\ ret = <<"\\033[38;2;" \o rgb>>
                   /\ ret = <<as_foreground(<<c[1], c[2], c[3], 255>>)>>
        /\ OnValue("as_background") =>
            /\ c[4] < 120 => ret = <<"">>
            /\ c[4] >= 120 =>
                   /\ ret = <<"\\033[48;2;" \o rgb>>
                   /\ ret = <<as_background(<<c[1], c[2], c[3], 255>>)>>

\* A background escape of a colour at the threshold alpha
C15_Witness ==
    /\ OnValue("as_background")
    /\ op.color = <<255, 8, 90, 120>>
    /\ ret = <<"\\033[48;2;255;8;90m">>

\* C16: ANSIColor(r, g, b, a) of integers, negative and above 255 included, returns a
\* colour whose channels are min(255, max(0, v)) of the arguments; every colour the
\* converter passes to its sink has its four channels in 0..255.
C16_Clamped ==
    /\ OnValue("ANSIColor") =>
           /\ Len(ret) = 1
           /\ \A k \in 1..4 :
                  ret[1][k] = IF op.pixel[k] < 0 THEN 0
                              ELSE IF op.pixel[k] > 255 THEN 255
                              ELSE op.pixel[k]
    /\ Converted =>
           \A i \in DOMAIN calls :
               \A c \in {calls[i].info.fg, calls[i].fg, calls[i].bg} \ {None} :
                   \A k \in 1..4 : c[k] \in 0..255

\* A colour built from channels below 0 and above 255
C16_Witness ==
    /\ OnValue("ANSIColor")
    /\ op.pixel[1] = -1
    /\ op.pixel[4] = 256
    /\ ret[1][1] = 0
    /\ ret[1][4] = 255

\* C17: with_flags(f) returns the receiver's ramp and background with flags f,
\* with_background(c) returns the receiver's ramp and flags with background c (the
\* colour ANSIColor builds from c when c is an (r, g, b) tuple), and the receiver's
\* ramp, background and flags are after the call what they were before.
C17_CopyOnWrite ==
    /\ OnValue("with_flags") =>
           /\ config = op.receiver
           /\ ret = <<[symbols |-> op.receiver.symbols,
                        background |-> op.receiver.background,
                        flags |-> op.flags]>>
    /\ OnValue("with_background") =>
           /\ config = op.receiver
           /\ ret = <<[symbols |-> op.receiver.symbols,
                        background |-> IF Len(op.color) = 4 THEN op.color
                                       ELSE ANSIColor(op.color[1], op.color[2],
                                                      op.color[3], 255),
                        flags |-> op.receiver.flags]>>

\* with_flags with flags other than the receiver's, on a receiver with a background
C17_Witness ==
    /\ OnValue("with_flags")
    /\ op.flags # config.flags
    /\ config.background # None
    /\ ret[1].flags = op.flags

-----------------------------------------------------------------------------
\* Claims about the colours the converter passes

ColouredCalls == {i \in DOMAIN calls : calls[i].op = "write_colored_fragment"}

-----------------------------------------------------------------------------
\* Claims relating the two sinks

\* The text a sequence of writes amounts to
RECURSIVE Joined(_)
Joined(writes) ==
    IF Len(writes) = 0 THEN "" ELSE Head(writes) \o Joined(Tail(writes))

\* A conversion without colours of an image with pixels, into a stream that took
\* every write
PlainStreamed ==
    /\ kind = "stream"
    /\ Converted
    /\ ~use_colors(config)
    /\ ~raised
    /\ op.image.w >= 1
    /\ op.image.h >= 1

\* str() of a new TextImage(config, W, H) after the conversion of the same image
TextImageText ==
    Joined(TextImage_str(config, op.image.w,
               convert_image_to_ascii(config, op.image,
                   TextImageSink(TextImage_init(config, op.image.w, op.image.h))).fragments))

\* The streaming sink wrote the configured background
BackgroundStreamed ==
    /\ config.background # None
    /\ ~reversed(config)
    /\ config.background[4] >= 120

\* C19 as stated: without colours and for W >= 1, H >= 1, the text the stream
\* receives is the string of a new TextImage after the same conversion, followed
\* by one newline.
C19_StreamIsTextImage ==
    PlainStreamed => Joined(dest) = TextImageText \o "\n"

\* C19 as amended: without colours and for W >= 1, H >= 1, the text the stream
\* receives is the string of a new TextImage after the same conversion followed by
\* one newline, and, when a background that is not transparent is configured and
\* reversed is unset, the background escape of it before and one reset after.
C19_StreamIsTextImageInBackground ==
    PlainStreamed =>
        Joined(dest) =
            (IF BackgroundStreamed
             THEN "\\033[48;2;" \o ToString(config.background[1]) \o ";"
                      \o ToString(config.background[2]) \o ";"
                      \o ToString(config.background[3]) \o "m"
             ELSE "")
            \o TextImageText \o "\n"
            \o (IF BackgroundStreamed THEN "\\033[0m" ELSE "")

\* Rows of several glyphs of a ramp, streamed inside a background
C19_Witness ==
    /\ PlainStreamed
    /\ BackgroundStreamed
    /\ op.image.w >= 2
    /\ op.image.h >= 2
    /\ Len(config.symbols) >= 2
    /\ \E i, j \in DOMAIN dest : dest[i] = "#" /\ dest[j] = " "

-----------------------------------------------------------------------------
\* Claims about TextImage.fragment_at

\* C20: fragment_at(x, y) on a TextImage of width W never raises; for 0 <= x < W and
\* y >= 0 it returns the fragment stored at index y * W + x when that index is below
\* the stored count and the absent result otherwise; for x >= W and for a negative
\* x or y it returns the absent result.
C20_FragmentAtInside ==
    OnTextImage("fragment_at") =>
        LET inside == 0 <= op.x /\ op.x < row_len /\ op.y >= 0
            idx == op.y * row_len + op.x
        IN  /\ ~raised
            /\ inside /\ idx < Len(fragments) =>
                   ret = <<Fragment(symbols_get(config.symbols, fragments[idx + 1].sym_index),
                                    fragments[idx + 1].fg)>>
            /\ inside /\ idx >= Len(fragments) => ret = None
            /\ ~inside => ret = None

====
